---- MODULE Spec2Model ----
(***************************************************************************)
(* Model of gpytorch's MultitaskMultivariateNormal                          *)
(* (distributions/multitask_multivariate_normal.py) and of the variational  *)
(* branch of AdditiveGridInducingPointModule.__call__                       *)
(* (inducing_points/additive_grid_inducing_point_module.py).                *)
(*                                                                         *)
(* A tensor is a record [shape, data]: shape is the torch.Size, data the   *)
(* entries in row-major (contiguous) order.  view keeps data and changes    *)
(* shape; transpose(-1, -2).contiguous() permutes data.                     *)
(***************************************************************************)
EXTENDS Integers, Sequences, FiniteSets

\* ------------------------------------------------------------------ bounds
MaxN == 3
MaxT == 3
MaxB == 2
MaxS == 2
MaxMvns == 3

VARIABLES
    phase,              \* "new": no object yet; "ready": constructed; "failed": constructor raised
    attrs,              \* names of the attributes assigned on self so far
    output_shape,       \* self._output_shape
    interleaved,        \* self._interleaved
    loc,                \* base distribution's flat mean (mean_mvn handed to super().__init__)
    covariance_matrix,  \* base distribution's covariance, shape batch + (n*t, n*t)
    arg_kinds,          \* <<type of mean, type of covariance_matrix>> the caller passed
    arg_mean,           \* the mean the caller passed to the constructor
    arg_mvns,           \* the list the caller passed to from_independent_mvns
    op,                 \* last method called
    raised,             \* exception class the last call raised, or "none"
    ret,                \* tensor the last call returned
    base_arg,           \* tensor the last call handed to the base distribution's method
    arg_value,          \* the value / base_samples tensor the caller passed to the last call
    arg_sample_shape,   \* the sample_shape the caller passed to the last call
    arg_collapse_dims,  \* the collapse_dims the caller passed to the last call
    z,                  \* flat noise the base distribution drew in the last call
    \* AdditiveGridInducingPointModule
    exact_inference,                \* self.exact_inference
    training,                       \* self.training
    variational_params_initialized, \* self.variational_params_initialized[0]
    has_computed_alpha,             \* self.has_computed_alpha[0]
    alpha,                          \* the self.alpha buffer
    variational_mean,               \* the variational_mean parameter
    chol_variational_covar,         \* the chol_variational_covar parameter
    induc_mean,                     \* induc_output.mean() under the current hyperparameters
    call_op,                        \* last operation on the module
    call_raised,                    \* exception class the last __call__ raised, or "none"
    test_alpha                      \* the alpha the last __call__ interpolated into its test mean

mtnVars == <<phase, attrs, output_shape, interleaved, loc, covariance_matrix, arg_kinds,
             arg_mean, arg_mvns, op, raised, ret, base_arg, arg_value, arg_sample_shape,
             arg_collapse_dims, z>>

agipVars == <<exact_inference, training, variational_params_initialized, has_computed_alpha,
              alpha, variational_mean, chol_variational_covar, induc_mean, call_op,
              call_raised, test_alpha>>

vars == <<mtnVars, agipVars>>

\* ------------------------------------------------------------- torch.Size
RECURSIVE Numel(_)
Numel(shape) == IF shape = <<>> THEN 1 ELSE Head(shape) * Numel(Tail(shape))

\* shape[:-k]
DropLast(shape, k) == SubSeq(shape, 1, Len(shape) - k)

\* shape[-k:]
TakeLast(shape, k) == SubSeq(shape, Len(shape) - k + 1, Len(shape))

\* shape[:-3:-1]: the last two dimensions, reversed
FlipLastTwo(shape) == <<shape[Len(shape)], shape[Len(shape) - 1]>>

\* ------------------------------------------------------------ torch.Tensor
NoTensor == [shape |-> <<0>>, data |-> <<>>]

\* x.view(shape) / x.reshape(shape) of a contiguous x: same storage, new shape
View(x, shape) == [shape |-> shape, data |-> x.data]

\* x.view(*x.shape[:-2], -1)
FlattenLastTwo(x) ==
    View(x, DropLast(x.shape, 2) \o <<x.shape[Len(x.shape) - 1] * x.shape[Len(x.shape)]>>)

\* x.transpose(-1, -2).contiguous(): out[..., j, i] = x[..., i, j]
Transpose(x) ==
    LET r == Len(x.shape)
        a == x.shape[r - 1]
        b == x.shape[r]
        src(k) == LET p == k - 1
                      blk == p \div (a * b)
                      w == p % (a * b)
                      j == w \div a
                      i == w % a
                  IN  blk * a * b + i * b + j + 1
    IN  [shape |-> DropLast(x.shape, 2) \o <<b, a>>,
         data |-> [k \in 1..Len(x.data) |-> x.data[src(k)]]]

\* entry of a tensor of rank 2 or 3 at (batch element bi, row i, column j), all 0-based
At(x, bi, i, j) ==
    LET r == Len(x.shape)
    IN  x.data[bi * x.shape[r - 1] * x.shape[r] + i * x.shape[r] + j + 1]

\* number of batch elements of a shape (..., n, t)
NumBatch(shape) == Numel(DropLast(shape, 2))

\* ----------------------------------------------------------------- inputs
\* what the caller passes as mean and as covariance_matrix.  A LazyTensor mean passes the
\* type check too; what view does on one is decided outside these sources, so the means
\* drawn here are tensors and plain lists.
MeanKinds == {"Tensor", "list"}

CovKinds == {"Tensor", "LazyTensor", "list"}

GoodShapes ==
    {<<n, t>> : n \in 1..MaxN, t \in 1..MaxT}
    \cup {<<b, n, t>> : b \in 1..MaxB, n \in 1..MaxN, t \in 1..MaxT}

BadShapes == {<<n>> : n \in 1..MaxN} \cup {<<1, 1, n, t>> : n \in 1..MaxN, t \in 1..MaxT}

\* a tensor whose entries are pairwise different: entry k (row-major) is base + k
Labelled(shape, base) == [shape |-> shape, data |-> [k \in 1..Numel(shape) |-> base + k]]

\* a covariance argument of shape batch + (N, N) for a mean of the given shape
CovFor(shape) ==
    LET N == IF Len(shape) >= 2 THEN shape[Len(shape) - 1] * shape[Len(shape)] ELSE shape[1]
        batch == IF Len(shape) >= 2 THEN DropLast(shape, 2) ELSE <<>>
    IN  Labelled(batch \o <<N, N>>, 1000)

\* -------------------------------------------------- base MultivariateNormal
\* MultivariateNormal.mean
MVN_mean == loc

\* MultivariateNormal.variance: the diagonal of the covariance, shape batch + (N)
MVN_variance ==
    LET sh == covariance_matrix.shape
        N == sh[Len(sh)]
    IN  [shape |-> DropLast(sh, 1),
         data |-> [k \in 1..Numel(DropLast(sh, 1)) |->
                      LET bi == (k - 1) \div N
                          d == (k - 1) % N
                      IN  At(covariance_matrix, bi, d, d)]]

\* ------------------------------------------------------------ __init__
\* the flattened mean handed to the base constructor
MeanMvn(mean, il) ==
    IF il THEN FlattenLastTwo(mean)
    ELSE View(Transpose(mean), DropLast(mean.shape, 2) \o <<Numel(TakeLast(mean.shape, 2))>>)

InitFails_NoCovCheck(mean_kind, cov_kind, mean) ==
    \/ mean_kind \notin {"Tensor", "LazyTensor"}
    \/ Len(mean.shape) \notin {2, 3}

InitFails(mean_kind, cov_kind, mean) ==
    \/ mean_kind \notin {"Tensor", "LazyTensor"}
    \/ cov_kind \notin {"Tensor", "LazyTensor"}
    \/ Len(mean.shape) \notin {2, 3}

\* the object's fields after a successful __init__(mean, covariance_matrix, interleaved)
Assign(mean, cov, il) ==
    /\ output_shape' = mean.shape
    /\ interleaved' = il
    /\ loc' = MeanMvn(mean, il)
    /\ covariance_matrix' = cov
    /\ attrs' = {"_output_shape", "_interleaved", "loc", "covariance_matrix"}

NoCall ==
    /\ ret' = NoTensor
    /\ base_arg' = NoTensor
    /\ arg_value' = NoTensor
    /\ arg_sample_shape' = <<>>
    /\ arg_collapse_dims' = {}
    /\ z' = NoTensor

MTN_init ==
    /\ phase = "new"
    /\ \E mean_kind \in MeanKinds, cov_kind \in CovKinds, shape \in GoodShapes \cup BadShapes,
          il \in BOOLEAN :
          LET mean == Labelled(shape, 0)
          IN  /\ arg_mean' = mean
              /\ arg_kinds' = <<mean_kind, cov_kind>>
              /\ op' = "__init__"
              /\ IF InitFails(mean_kind, cov_kind, mean)
                 THEN /\ raised' = "RuntimeError"
                      /\ phase' = "failed"
                      /\ UNCHANGED <<attrs, output_shape, interleaved, loc, covariance_matrix>>
                 ELSE /\ raised' = "none"
                      /\ phase' = "ready"
                      /\ Assign(mean, CovFor(shape), il)
    /\ NoCall
    /\ UNCHANGED arg_mvns
    /\ UNCHANGED agipVars

\* ---------------------------------------------------------------- mean
Mean_NoTranspose == View(MVN_mean, output_shape)

Mean ==
    IF ~interleaved
    THEN Transpose(View(MVN_mean, DropLast(output_shape, 2) \o FlipLastTwo(output_shape)))
    ELSE View(MVN_mean, output_shape)

\* ------------------------------------------------------------ variance
Variance_NoTranspose == View(MVN_variance, output_shape)

Variance ==
    IF ~interleaved
    THEN Transpose(View(MVN_variance, DropLast(output_shape, 2) \o FlipLastTwo(output_shape)))
    ELSE View(MVN_variance, output_shape)

Call(name) ==
    /\ phase = "ready"
    /\ op' = name
    /\ UNCHANGED <<phase, attrs, output_shape, interleaved, loc, covariance_matrix,
                   arg_kinds, arg_mean, arg_mvns>>
    /\ UNCHANGED agipVars

MTN_mean ==
    /\ Call("mean")
    /\ raised' = "none"
    /\ ret' = Mean
    /\ base_arg' = NoTensor
    /\ arg_value' = NoTensor
    /\ arg_sample_shape' = <<>>
    /\ arg_collapse_dims' = {}
    /\ z' = NoTensor

MTN_variance ==
    /\ Call("variance")
    /\ raised' = "none"
    /\ ret' = Variance
    /\ base_arg' = NoTensor
    /\ arg_value' = NoTensor
    /\ arg_sample_shape' = <<>>
    /\ arg_collapse_dims' = {}
    /\ z' = NoTensor

\* ------------------------------------------------------------ log_prob
\* the flat value handed to super().log_prob
LogProbFlat(value) ==
    IF ~interleaved
    THEN FlattenLastTwo(Transpose(View(value, DropLast(value.shape, 2) \o FlipLastTwo(value.shape))))
    ELSE FlattenLastTwo(value)

MTN_log_prob ==
    /\ Call("log_prob")
    /\ \E value \in {Labelled(output_shape, 100), Mean} :
          /\ arg_value' = value
          /\ base_arg' = LogProbFlat(value)
    /\ raised' = "none"
    /\ ret' = NoTensor
    /\ arg_sample_shape' = <<>>
    /\ arg_collapse_dims' = {}
    /\ z' = NoTensor

\* ------------------------------------------------ from_independent_mvns
BatchShapes == {<<>>} \cup {<<b>> : b \in 1..MaxB} \cup {<<1, 1>>}

\* a single-task MultivariateNormal, the j-th of a list: its entries say whose they are
Mvn(j, batch_shape, n) ==
    [batch_shape |-> batch_shape,
     event_shape |-> <<n>>,
     mean |-> Labelled(batch_shape \o <<n>>, 100 * j),
     covariance_matrix |-> Labelled(batch_shape \o <<n, n>>, 1000 * j)]

\* the list built from choices c[j] = <<batch shape, event size>>
MvnList(c) == [j \in 1..Len(c) |-> Mvn(j, c[j][1], c[j][2])]

FromIndependentFails_NoRankCheck(mvns) ==
    \/ Len(mvns) < 2
    \/ ~(\A j \in 2..Len(mvns) : mvns[j].batch_shape = mvns[1].batch_shape)
    \/ ~(\A j \in 2..Len(mvns) : mvns[j].event_shape = mvns[1].event_shape)

\* the ValueError checks, in the order the code makes them
FromIndependentFails(mvns) ==
    \/ Len(mvns) < 2
    \/ ~(\A j \in 2..Len(mvns) : mvns[j].batch_shape = mvns[1].batch_shape)
    \/ ~(\A j \in 2..Len(mvns) : mvns[j].event_shape = mvns[1].event_shape)
    \/ Len(mvns[1].batch_shape) > 1

\* torch.stack([mvn.mean for mvn in mvns], -1): out[..., i, j] = mvns[j].mean[..., i]
StackMeans(mvns) ==
    LET t == Len(mvns)
        n == mvns[1].event_shape[1]
    IN  [shape |-> mvns[1].batch_shape \o <<n, t>>,
         data |-> [k \in 1..(Numel(mvns[1].batch_shape) * n * t) |->
                      LET p == k - 1
                          j == p % t
                          i == (p \div t) % n
                          bi == p \div (n * t)
                      IN  mvns[j + 1].mean.data[bi * n + i + 1]]]

RECURSIVE ConcatData(_)
ConcatData(xs) == IF xs = <<>> THEN <<>> ELSE Head(xs).data \o ConcatData(Tail(xs))

\* concatenation along dim 0 of tensors of equal trailing shape (m_j, n, n)
\* (torch.cat of the unsqueezed covariances / CatLazyTensor(..., dim=0))
Cat0(xs) ==
    LET m == Len(ConcatData(xs)) \div Numel(TakeLast(xs[1].shape, 2))
    IN  [shape |-> <<m>> \o TakeLast(xs[1].shape, 2), data |-> ConcatData(xs)]

\* x.unsqueeze(0)
Unsqueeze0(x) == View(x, <<1>> \o x.shape)

\* BlockDiagLazyTensor(base, num_blocks=None) of a (k, n, n) base: the (k*n, k*n)
\* matrix with base[j] as diagonal block j and zeros elsewhere
BlockDiag(base) ==
    LET k == base.shape[1]
        n == base.shape[2]
    IN  [shape |-> <<k * n, k * n>>,
         data |-> [q \in 1..(k * n * k * n) |->
                      LET r == (q - 1) \div (k * n)
                          c == (q - 1) % (k * n)
                      IN  IF r \div n = c \div n
                          THEN At(base, r \div n, r % n, c % n)
                          ELSE 0]]

\* BlockDiagLazyTensor(base, num_blocks=k) of the concatenation of k operators of shape
\* (b, n, n): the (b, k*n, k*n) operator whose batch element bi has operator j's
\* batch element bi as diagonal block j
BatchBlockDiag(base, num_blocks) ==
    LET k == num_blocks
        b == base.shape[1] \div k
        n == base.shape[2]
    IN  [shape |-> <<b, k * n, k * n>>,
         data |-> [q \in 1..(b * k * n * k * n) |->
                      LET bi == (q - 1) \div (k * n * k * n)
                          w == (q - 1) % (k * n * k * n)
                          r == w \div (k * n)
                          c == w % (k * n)
                      IN  IF r \div n = c \div n
                          THEN At(base, (r \div n) * b + bi, r % n, c % n)
                          ELSE 0]]

\* covar_lazy of from_independent_mvns
CovarLazy(mvns) ==
    LET batch_mode == Len(mvns[1].covariance_matrix.shape) = 3
    IN  IF batch_mode
        THEN BatchBlockDiag(Cat0([j \in 1..Len(mvns) |-> mvns[j].covariance_matrix]), Len(mvns))
        ELSE BlockDiag(Cat0([j \in 1..Len(mvns) |-> Unsqueeze0(mvns[j].covariance_matrix)]))

MTN_from_independent_mvns ==
    /\ phase = "new"
    /\ \E len \in 0..MaxMvns : \E c \in [1..len -> BatchShapes \X (1..MaxN)] :
        LET mvns == MvnList(c)
        IN
          /\ arg_mvns' = mvns
          /\ op' = "from_independent_mvns"
          /\ IF FromIndependentFails(mvns)
             THEN /\ raised' = "ValueError"
                  /\ phase' = "failed"
                  /\ arg_mean' = NoTensor
                  /\ arg_kinds' = <<"none", "none">>
                  /\ UNCHANGED <<attrs, output_shape, interleaved, loc, covariance_matrix>>
             ELSE LET mean == StackMeans(mvns)
                  IN  /\ arg_mean' = mean
                      /\ arg_kinds' = <<"Tensor", "LazyTensor">>
                      /\ IF InitFails("Tensor", "LazyTensor", mean)
                         THEN /\ raised' = "RuntimeError"
                              /\ phase' = "failed"
                              /\ UNCHANGED <<attrs, output_shape, interleaved, loc,
                                             covariance_matrix>>
                         ELSE /\ raised' = "none"
                              /\ phase' = "ready"
                              /\ Assign(mean, CovarLazy(mvns), FALSE)
    /\ NoCall
    /\ UNCHANGED agipVars

\* ------------------------------------------------------ get_base_samples
SampleShapes == {<<>>} \cup {<<s>> : s \in 1..MaxS}

NoiseBases == {500, 700}

\* output_shape with the dimensions named by collapse_dims set to 1
\* (collapse_dims=None behaves as the empty collection)
Collapsed(shape, collapse_dims) ==
    [i \in 1..Len(shape) |-> IF (i - 1) \notin collapse_dims THEN shape[i] ELSE 1]

\* shape of what MultivariateNormal.get_base_samples returns: sample_shape, then the
\* batch shape with the collapsed dimensions set to 1, then the event size n*t
MVN_base_samples_shape(sample_shape, collapse_dims) ==
    LET oc == Collapsed(output_shape, collapse_dims)
    IN  sample_shape \o DropLast(oc, 2) \o <<oc[Len(oc) - 1] * oc[Len(oc)]>>

GetBaseSamples(base_samples, sample_shape, collapse_dims) ==
    LET oc == Collapsed(output_shape, collapse_dims)
    IN  IF ~interleaved
        THEN Transpose(View(base_samples, sample_shape \o DropLast(oc, 2) \o FlipLastTwo(oc)))
        ELSE View(base_samples, sample_shape \o oc)

MTN_get_base_samples ==
    /\ Call("get_base_samples")
    /\ \E sample_shape \in SampleShapes, seed \in NoiseBases,
          collapse_dims \in IF Len(output_shape) = 3 THEN {{}, {0}} ELSE {{}} :
          LET base_samples == Labelled(MVN_base_samples_shape(sample_shape, collapse_dims), seed)
          IN  /\ z' = base_samples
              /\ arg_sample_shape' = sample_shape
              /\ arg_collapse_dims' = collapse_dims
              /\ ret' = GetBaseSamples(base_samples, sample_shape, collapse_dims)
    /\ raised' = "none"
    /\ base_arg' = NoTensor
    /\ arg_value' = NoTensor

\* --------------------------------------------------------------- rsample
\* base_samples.shape[-ndim:]
TrailingShape(shape, ndim) == IF Len(shape) <= ndim THEN shape ELSE TakeLast(shape, ndim)

\* base_samples.shape[:-ndim]
LeadingShape(shape, ndim) == IF Len(shape) <= ndim THEN <<>> ELSE DropLast(shape, ndim)

RsampleFails_RankOnly(base_samples) == Len(base_samples.shape) < Len(Mean.shape)

RsampleFails(base_samples) ==
    Mean.shape # TrailingShape(base_samples.shape, Len(Mean.shape))

\* the flat base samples handed to super().rsample
RsampleFlat(base_samples) ==
    View(base_samples, LeadingShape(base_samples.shape, Len(Mean.shape)) \o loc.shape)

\* MultivariateNormal.rsample: loc + factor . noise, entry by entry of the flat event;
\* an entry is written <<loc entry, noise entry>>
MVN_rsample(sample_shape, noise) ==
    [shape |-> sample_shape \o loc.shape,
     data |-> [k \in 1..Numel(sample_shape \o loc.shape) |->
                  <<loc.data[((k - 1) % Len(loc.data)) + 1], noise.data[k]>>]]

RsampleOut(samples, sample_shape) ==
    IF ~interleaved
    THEN Transpose(View(samples, sample_shape \o DropLast(output_shape, 2)
                                  \o FlipLastTwo(output_shape)))
    ELSE View(samples, sample_shape \o output_shape)

\* what a caller may pass as base_samples: what get_base_samples just returned, a fresh
\* tensor of the right shape, or one whose last dimension is one too long
BaseSampleArgs ==
    (IF op = "get_base_samples" THEN {ret} ELSE {})
    \cup {Labelled(s \o output_shape, 300) : s \in SampleShapes}
    \cup {Labelled(s \o DropLast(output_shape, 1) \o <<output_shape[Len(output_shape)] + 1>>, 300) :
            s \in SampleShapes}

MTN_rsample_base_samples ==
    /\ Call("rsample")
    /\ \E base_samples \in BaseSampleArgs, sample_shape \in {<<>>, <<MaxS>>} :
          /\ arg_value' = base_samples
          /\ arg_sample_shape' = sample_shape
          /\ arg_collapse_dims' = {}
          /\ z' = IF op = "get_base_samples" /\ base_samples = ret THEN z ELSE NoTensor
          /\ IF RsampleFails(base_samples)
             THEN /\ raised' = "RuntimeError"
                  /\ ret' = NoTensor
                  /\ base_arg' = NoTensor
             ELSE LET inferred == LeadingShape(base_samples.shape, Len(Mean.shape))
                      flat == RsampleFlat(base_samples)
                  IN  /\ raised' = "none"
                      /\ base_arg' = flat
                      /\ ret' = RsampleOut(MVN_rsample(inferred, flat), inferred)

MTN_rsample ==
    /\ Call("rsample")
    /\ \E sample_shape \in SampleShapes, seed \in NoiseBases :
          LET noise == Labelled(sample_shape \o loc.shape, seed)
          IN  /\ arg_sample_shape' = sample_shape
              /\ arg_collapse_dims' = {}
              /\ z' = noise
              /\ ret' = RsampleOut(MVN_rsample(sample_shape, noise), sample_shape)
    /\ raised' = "none"
    /\ arg_value' = NoTensor
    /\ base_arg' = NoTensor

\* ------------------------------------------ AdditiveGridInducingPointModule
\* indices of the inducing points of the grid
GridPoints == 1..2

MaxVal == 1

\* values a parameter vector over the grid can take
ParamVectors == [GridPoints -> 0..MaxVal]

Zeros == [i \in GridPoints |-> 0]

\* torch.eye(len(mean_init)), scaled
ScaledEye(c) == [i \in GridPoints |-> [j \in GridPoints |-> IF i = j THEN c ELSE 0]]

Eye == ScaledEye(1)

\* variational_mean.sub(induc_output.mean())
Sub(v, w) == [i \in GridPoints |-> v[i] - w[i]]

\* not self.variational_params_initialized[0]
ParamsUninitialized == variational_params_initialized = 0

AlphaNotComputed_Always == TRUE

\* not self.has_computed_alpha[0]
AlphaNotComputed == has_computed_alpha = 0

InitAGIP ==
    /\ exact_inference \in BOOLEAN
    /\ training = TRUE
    /\ variational_params_initialized = 0
    /\ has_computed_alpha = 0
    /\ alpha = Zeros
    /\ variational_mean = Zeros
    /\ chol_variational_covar = ScaledEye(0)
    /\ induc_mean \in ParamVectors
    /\ call_op = "none"
    /\ call_raised = "none"
    /\ test_alpha = Zeros

\* inputs the input checks of __call__ reject: rank above 3, or a last dimension that is
\* not the grid's single dimension
AGIP_call_rejected ==
    /\ \E ndimension \in 1..4, n_dimensions \in 1..2 :
          \/ ndimension > 3
          \/ ndimension = 3 /\ n_dimensions # 1
    /\ call_op' = "__call__"
    /\ call_raised' = "RuntimeError"
    /\ UNCHANGED <<exact_inference, training, variational_params_initialized,
                   has_computed_alpha, alpha, variational_mean, chol_variational_covar,
                   induc_mean, test_alpha>>
    /\ UNCHANGED mtnVars

\* __call__ with exact_inference: the test mean interpolates the inducing mean
AGIP_call_exact ==
    /\ exact_inference
    /\ call_op' = "__call__"
    /\ call_raised' = "none"
    /\ test_alpha' = induc_mean
    /\ UNCHANGED <<exact_inference, training, variational_params_initialized,
                   has_computed_alpha, alpha, variational_mean, chol_variational_covar,
                   induc_mean>>
    /\ UNCHANGED mtnVars

\* __call__ without exact_inference
AGIP_call ==
    /\ ~exact_inference
    /\ call_op' = "__call__"
    /\ call_raised' = "none"
    /\ IF ParamsUninitialized
       THEN /\ variational_mean' = induc_mean
            /\ chol_variational_covar' = Eye
            /\ variational_params_initialized' = 1
       ELSE UNCHANGED <<variational_mean, chol_variational_covar,
                        variational_params_initialized>>
    /\ IF training
       THEN /\ test_alpha' = induc_mean
            /\ UNCHANGED <<alpha, has_computed_alpha>>
       ELSE IF AlphaNotComputed
            THEN /\ test_alpha' = Sub(variational_mean', induc_mean)
                 /\ alpha' = Sub(variational_mean', induc_mean)
                 /\ has_computed_alpha' = 1
            ELSE /\ test_alpha' = alpha
                 /\ UNCHANGED <<alpha, has_computed_alpha>>
    /\ UNCHANGED <<exact_inference, training, induc_mean>>
    /\ UNCHANGED mtnVars

\* module.train() / module.eval() between calls
AGIP_train ==
    /\ \E mode \in BOOLEAN : training' = mode
    /\ call_op' = "train"
    /\ UNCHANGED <<exact_inference, variational_params_initialized, has_computed_alpha,
                   alpha, variational_mean, chol_variational_covar, induc_mean,
                   call_raised, test_alpha>>
    /\ UNCHANGED mtnVars

\* an optimizer step between calls on the variational parameters
AGIP_step_variational ==
    /\ training
    /\ variational_mean' \in ParamVectors
    /\ chol_variational_covar' = ScaledEye(2)
    /\ call_op' = "step"
    /\ UNCHANGED <<exact_inference, training, variational_params_initialized,
                   has_computed_alpha, alpha, induc_mean, call_raised, test_alpha>>
    /\ UNCHANGED mtnVars

\* an optimizer step between calls on the hyperparameters: the inducing output moves
AGIP_step_hyper ==
    /\ training
    /\ induc_mean' \in ParamVectors
    /\ call_op' = "step"
    /\ UNCHANGED <<exact_inference, training, variational_params_initialized,
                   has_computed_alpha, alpha, variational_mean, chol_variational_covar,
                   call_raised, test_alpha>>
    /\ UNCHANGED mtnVars

NextAGIP ==
    \/ AGIP_call_rejected
    \/ AGIP_call_exact
    \/ AGIP_call
    \/ AGIP_train
    \/ AGIP_step_variational
    \/ AGIP_step_hyper

InitMTN ==
    /\ phase = "new"
    /\ attrs = {}
    /\ output_shape = <<>>
    /\ interleaved = FALSE
    /\ loc = NoTensor
    /\ covariance_matrix = NoTensor
    /\ arg_kinds = <<"none", "none">>
    /\ arg_mean = NoTensor
    /\ arg_mvns = <<>>
    /\ op = "none"
    /\ raised = "none"
    /\ ret = NoTensor
    /\ base_arg = NoTensor
    /\ arg_value = NoTensor
    /\ arg_sample_shape = <<>>
    /\ arg_collapse_dims = {}
    /\ z = NoTensor

\* the primary constructor and the accessors that read the mean
NextMTN ==
    \/ MTN_init
    \/ MTN_mean
    \/ MTN_variance
    \/ MTN_log_prob

IdleAGIP == InitAGIP /\ ~exact_inference /\ induc_mean = Zeros

\* no distribution constructed yet, the module untouched
Init == InitMTN /\ IdleAGIP

SpecMTN == Init /\ [][NextMTN]_vars

\* construction from independent single-task distributions
NextIndep ==
    \/ MTN_from_independent_mvns
    \/ MTN_mean
    \/ MTN_variance

SpecIndep == Init /\ [][NextIndep]_vars

\* sampling
NextSample ==
    \/ MTN_init
    \/ MTN_get_base_samples
    \/ MTN_rsample_base_samples
    \/ MTN_rsample

SpecSample == Init /\ [][NextSample]_vars

\* the module alone; the distribution stays unconstructed
InitModule == InitMTN /\ InitAGIP

SpecAGIP == InitModule /\ [][NextAGIP]_vars

\* ================================================================= claims
\* n and t of the constructed distribution, and the number of its batch elements
N_ == output_shape[Len(output_shape) - 1]

T_ == output_shape[Len(output_shape)]

B_ == NumBatch(output_shape)

\* position of grid cell (obs i, task j) in the flat n*t event, 0-based: task-minor when
\* interleaved, task-major when not
FlatIndex(il, n, t, i, j) == IF il THEN i * t + j ELSE j * n + i

OkKinds == {"Tensor", "LazyTensor"}

\* ---------------------------------------------------------------------- C1
\* C1: the mean accessor returns a tensor of the recorded output shape whose entry at
\* every (batch, obs, task) is the entry of the mean given to the constructor, and the
\* constructor stored that entry at flat index obs*t+task (interleaved) or task*n+obs
\* (not interleaved).
C1_MeanRoundTrip ==
    (phase = "ready" /\ op = "mean") =>
        /\ ret.shape = output_shape
        /\ output_shape = arg_mean.shape
        /\ \A b \in 0..(B_ - 1), i \in 0..(N_ - 1), j \in 0..(T_ - 1) :
              /\ At(ret, b, i, j) = At(arg_mean, b, i, j)
              /\ loc.data[b * N_ * T_ + FlatIndex(interleaved, N_, T_, i, j) + 1]
                    = At(arg_mean, b, i, j)

C1_Witness ==
    /\ phase = "ready"
    /\ op = "mean"
    /\ ~interleaved
    /\ output_shape = <<2, 2, 3>>
    /\ ret = arg_mean
    /\ loc.data[2] = At(arg_mean, 0, 1, 0)

\* ---------------------------------------------------------------------- C2
\* C2: in both layouts log_prob hands the base distribution a flat vector that holds
\* value[obs, task] at the flat position where the constructor put mean[obs, task], so
\* that the density does not depend on the layout.
C2_LogProbLayoutInvariant ==
    (phase = "ready" /\ op = "log_prob") =>
        \A b \in 0..(B_ - 1), i \in 0..(N_ - 1), j \in 0..(T_ - 1) :
            base_arg.data[b * N_ * T_ + FlatIndex(interleaved, N_, T_, i, j) + 1]
                = At(arg_value, b, i, j)

\* ---------------------------------------------------------------------- C8
\* C8: for a distribution that is not interleaved, log_prob transposes the last two axes
\* of the value and then reshapes to (..., n*t), and log_prob of the tensor the mean
\* accessor returns hands the base distribution its own flat mean.
C8_LogProbInvertsMean ==
    (phase = "ready" /\ op = "log_prob" /\ ~interleaved) =>
        /\ base_arg = FlattenLastTwo(Transpose(arg_value))
        /\ (arg_value = Mean => base_arg = loc)

\* ---------------------------------------------------------------------- C6
\* C6 as stated: a mean that is no tensor or lazy operator raises TypeError, so does
\* such a covariance, a mean of rank other than 2 or 3 raises ShapeError, and a failed
\* construction assigns no field.
C6_Original ==
    (op = "__init__") =>
        /\ (arg_kinds[1] \notin OkKinds => raised = "TypeError")
        /\ (arg_kinds[1] \in OkKinds /\ arg_kinds[2] \notin OkKinds => raised = "TypeError")
        /\ (arg_kinds[1] \in OkKinds /\ arg_kinds[2] \in OkKinds
               /\ Len(arg_mean.shape) \notin {2, 3} => raised = "ShapeError")
        /\ (raised # "none" => attrs = {})

\* C6 amended: each of the three checks raises RuntimeError, before any field is
\* assigned; a construction that passes all three assigns every field.
C6_InitValidation ==
    (op = "__init__") =>
        LET bad == \/ arg_kinds[1] \notin OkKinds
                   \/ arg_kinds[2] \notin OkKinds
                   \/ Len(arg_mean.shape) \notin {2, 3}
        IN  /\ bad => /\ raised = "RuntimeError"
                      /\ phase = "failed"
                      /\ attrs = {}
                      /\ output_shape = <<>>
                      /\ loc = NoTensor
                      /\ covariance_matrix = NoTensor
            /\ ~bad => /\ raised = "none"
                       /\ phase = "ready"
                       /\ attrs = {"_output_shape", "_interleaved", "loc", "covariance_matrix"}
                       /\ output_shape = arg_mean.shape

C6_Witness ==
    /\ op = "__init__"
    /\ arg_kinds = <<"Tensor", "list">>
    /\ arg_mean.shape = <<2, 3>>
    /\ raised = "RuntimeError"
    /\ attrs = {}

C4_IndependentPreconditions ==
    (op = "from_independent_mvns") =>
        LET violation ==
                \/ Len(arg_mvns) < 2
                \/ Cardinality({arg_mvns[j].batch_shape : j \in 1..Len(arg_mvns)}) > 1
                \/ Cardinality({arg_mvns[j].event_shape : j \in 1..Len(arg_mvns)}) > 1
                \/ \E j \in 1..Len(arg_mvns) : Len(arg_mvns[j].batch_shape) > 1
        IN  /\ violation => /\ raised = "ValueError"
                            /\ phase = "failed"
                            /\ arg_mean = NoTensor
                            /\ attrs = {}
                            /\ loc = NoTensor
                            /\ covariance_matrix = NoTensor
            /\ ~violation => /\ raised = "none"
                             /\ phase = "ready"
                             /\ loc # NoTensor

C4_Witness ==
    /\ op = "from_independent_mvns"
    /\ Len(arg_mvns) = 2
    /\ arg_mvns[1].batch_shape = <<1, 1>>
    /\ arg_mvns[2].batch_shape = <<1, 1>>
    /\ arg_mvns[1].event_shape = arg_mvns[2].event_shape
    /\ raised = "ValueError"
    /\ attrs = {}

\* ---------------------------------------------------------------------- C5
\* whether the trailing dimensions of the base samples last passed equal the output shape
TrailingMatches ==
    /\ Len(arg_value.shape) >= Len(output_shape)
    /\ TakeLast(arg_value.shape, Len(output_shape)) = output_shape

\* C5 as stated: base samples whose trailing dimensions differ from the output shape
\* make rsample fail with ShapeError.
C5_Original ==
    (phase = "ready" /\ op = "rsample" /\ arg_value # NoTensor /\ ~TrailingMatches) =>
        raised = "ShapeError"

\* C5 amended: get_base_samples(sample_shape=S) without collapse_dims returns shape
\* S + O in both layouts; rsample(base_samples=B) accepts B exactly when the trailing
\* rank(O) dimensions of B equal O, then returns shape (leading dimensions of B) + O
\* whatever sample_shape it was given; otherwise it raises RuntimeError and returns
\* nothing.
C5_BaseSampleShapes ==
    /\ (phase = "ready" /\ op = "get_base_samples" /\ arg_collapse_dims = {}) =>
           ret.shape = arg_sample_shape \o output_shape
    /\ (phase = "ready" /\ op = "rsample" /\ arg_value # NoTensor) =>
           /\ TrailingMatches =>
                 /\ raised = "none"
                 /\ ret.shape = DropLast(arg_value.shape, Len(output_shape)) \o output_shape
           /\ ~TrailingMatches =>
                 /\ raised = "RuntimeError"
                 /\ ret = NoTensor

C5_Witness ==
    /\ phase = "ready"
    /\ op = "rsample"
    /\ ~interleaved
    /\ output_shape = <<3, 2>>
    /\ arg_value.shape = <<2, 3, 3>>
    /\ arg_sample_shape = <<>>
    /\ raised = "RuntimeError"
    /\ ret = NoTensor

\* ---------------------------------------------------------------------- C7
\* C7: base samples drawn with collapse_dims = (0,) from a batched distribution have
\* shape S + (1, n, t), and rsample accepts whatever get_base_samples of the same
\* distribution returned.
C7_OwnBaseSamplesAccepted ==
    /\ (phase = "ready" /\ op = "get_base_samples" /\ arg_collapse_dims = {0}) =>
           ret.shape = arg_sample_shape \o <<1, N_, T_>>
    /\ (phase = "ready" /\ op = "rsample" /\ arg_value # NoTensor /\ z # NoTensor) =>
           raised = "none"

\* ---------------------------------------------------------------------- C9
\* C9: rsample(base_samples=B) hands the base sampler a flat vector that holds
\* B[..., obs, task] at the flat index of cell (obs, task) in the distribution's layout,
\* so base samples that came from get_base_samples reach the base sampler as the flat
\* vector the base get_base_samples drew.
C9_BaseSamplesFlattenedByLayout ==
    (phase = "ready" /\ op = "rsample" /\ arg_value # NoTensor /\ raised = "none") =>
        /\ \A e \in 0..(Numel(DropLast(arg_value.shape, 2)) - 1),
              i \in 0..(N_ - 1), j \in 0..(T_ - 1) :
              base_arg.data[e * N_ * T_ + FlatIndex(interleaved, N_, T_, i, j) + 1]
                  = At(arg_value, e, i, j)
        /\ (z # NoTensor => base_arg = z)

\* --------------------------------------------------------------------- C10
\* C10: without exact_inference, a call initialises the variational parameters (mean
\* copied from the inducing output, Cholesky factor the identity) only while they are
\* uninitialised, which the first call ends; the alpha buffer is written only by the
\* first evaluation-mode call, as variational_mean - inducing mean; no step clears
\* either flag; training-mode calls use the inducing mean and leave the buffer alone;
\* every later evaluation-mode call uses the stored alpha.
C10_AlphaWrittenOnce ==
    [][/\ (variational_params_initialized = 1 => variational_params_initialized' = 1)
       /\ (has_computed_alpha = 1 => has_computed_alpha' = 1 /\ alpha' = alpha)
       /\ (alpha' # alpha => call_op' = "__call__" /\ ~training /\ has_computed_alpha = 0)
       /\ (call_op' = "__call__" /\ call_raised' = "none" /\ ~exact_inference) =>
             /\ variational_params_initialized' = 1
             /\ (variational_params_initialized = 0 =>
                    variational_mean' = induc_mean /\ chol_variational_covar' = Eye)
             /\ (variational_params_initialized = 1 =>
                    UNCHANGED <<variational_mean, chol_variational_covar>>)
             /\ (training => test_alpha' = induc_mean /\ UNCHANGED <<alpha, has_computed_alpha>>)
             /\ (~training /\ has_computed_alpha = 0 =>
                    /\ alpha' = Sub(variational_mean', induc_mean)
                    /\ has_computed_alpha' = 1
                    /\ test_alpha' = alpha')
             /\ (~training /\ has_computed_alpha = 1 => test_alpha' = alpha)]_vars

\* an evaluation-mode call that used a stored alpha the parameters have since moved away from
C10_Witness ==
    /\ ~exact_inference
    /\ call_op = "__call__"
    /\ call_raised = "none"
    /\ ~training
    /\ has_computed_alpha = 1
    /\ test_alpha = alpha
    /\ alpha # Sub(variational_mean, induc_mean)
====
